---- MODULE Spec2Model ----
(***************************************************************************)
(* Model of the Excel-to-spreadsheet merge script (src/コード.js):          *)
(* combineExcelSheets, processFiles, processExcelFile, createSpreadsheet   *)
(* and the helpers they call.                                              *)
(*                                                                         *)
(* Strings are sequences of characters, one TLA+ string per character.     *)
(* The Japanese characters of the source are written with one ASCII name   *)
(* per character:                                                          *)
(*   "Kou" 購  "Nyu" 入  "Sei" 製  "Saku" 作  "Den" 電  "Ki" 気            *)
(*   "Bu" 部  "Hin" 品  "Ri" リ  "Su" ス  "To" ト                          *)
(*   "Sha" 社  "Nai" 内  "Zai" 在  "Ko" 庫  "Na" な  "Shi" し              *)
(* so 購入 is <<"Kou","Nyu">> and slice(1) of 購03 is <<"0","3">>.         *)
(***************************************************************************)
EXTENDS Integers, Sequences, FiniteSets, TLC

\* ------------------------------------------------------------------ bounds
\* subfolders listed under the selected folder
MaxFolders == 2
\* files iterated in the whole run (all groups together)
MaxFiles == 3

\* ------------------------------------------------------- string primitives
DigitChars == <<"0", "1", "2", "3", "4", "5", "6", "7", "8", "9">>

IsDigit(c) == \E i \in 1..10 : DigitChars[i] = c

DigitVal(c) == (CHOOSE i \in 1..10 : DigitChars[i] = c) - 1

UpperChars == <<"A", "B", "C", "D", "E", "F", "G", "H", "I", "J", "K", "L", "M",
                "N", "O", "P", "Q", "R", "S", "T", "U", "V", "W", "X", "Y", "Z">>

LowerChars == <<"a", "b", "c", "d", "e", "f", "g", "h", "i", "j", "k", "l", "m",
                "n", "o", "p", "q", "r", "s", "t", "u", "v", "w", "x", "y", "z">>

\* String.prototype.toLowerCase, one character
LowerChar(c) ==
  IF \E i \in 1..26 : UpperChars[i] = c
  THEN LowerChars[CHOOSE i \in 1..26 : UpperChars[i] = c]
  ELSE c

ToLowerCase(s) == [i \in 1..Len(s) |-> LowerChar(s[i])]

\* String.prototype.endsWith
EndsWith(s, suf) ==
  /\ Len(suf) <= Len(s)
  /\ SubSeq(s, Len(s) - Len(suf) + 1, Len(s)) = suf

\* String.prototype.startsWith
StartsWith(s, pre) ==
  /\ Len(pre) <= Len(s)
  /\ SubSeq(s, 1, Len(pre)) = pre

\* s matches pat at (1-based) position i
MatchAt(s, i, pat) ==
  /\ i >= 1
  /\ i + Len(pat) - 1 <= Len(s)
  /\ SubSeq(s, i, i + Len(pat) - 1) = pat

\* String.prototype.includes
Includes(s, pat) == \E i \in 1..(Len(s) + 1) : MatchAt(s, i, pat)

\* s.replace(/[^0-9]/g, "")
RECURSIVE DigitsOnly(_)
DigitsOnly(s) ==
  IF s = <<>> THEN <<>>
  ELSE (IF IsDigit(Head(s)) THEN <<Head(s)>> ELSE <<>>) \o DigitsOnly(Tail(s))

\* length of the run of digits of s that starts at position i
RECURSIVE DigitRun(_, _)
DigitRun(s, i) ==
  IF i <= Len(s) /\ IsDigit(s[i]) THEN 1 + DigitRun(s, i + 1) ELSE 0

\* decimal value of a string of digits
RECURSIVE DecimalValue(_)
DecimalValue(s) ==
  IF s = <<>> THEN 0
  ELSE 10 * DecimalValue(SubSeq(s, 1, Len(s) - 1)) + DigitVal(s[Len(s)])

\* parseInt(s): the leading run of digits, NaN when there is none.  A number
\* is [nan |-> FALSE, val |-> n]; NaN is [nan |-> TRUE, val |-> 0].  (No
\* string of the model starts with white space or a sign.)
ParseInt(s) ==
  LET n == DigitRun(s, 1) IN
    IF n = 0 THEN [nan |-> TRUE, val |-> 0]
    ELSE [nan |-> FALSE, val |-> DecimalValue(SubSeq(s, 1, n))]

\* a > b on JavaScript numbers: false as soon as one side is NaN
JsGreaterOrEqual(a, b) == ~a.nan /\ ~b.nan /\ a.val >= b.val

JsGreater(a, b) == ~a.nan /\ ~b.nan /\ a.val > b.val

\* parseInt(s) || 0
ParseIntOrZero(s) == IF ParseInt(s).nan THEN 0 ELSE ParseInt(s).val

\* String.prototype.padStart(n, "0")
RECURSIVE PadStart(_, _)
PadStart(s, n) == IF Len(s) >= n THEN s ELSE PadStart(<<"0">> \o s, n)

\* Array.prototype.join / string concatenation of a list of strings
RECURSIVE Join(_, _)
Join(parts, sep) ==
  IF parts = <<>> THEN <<>>
  ELSE IF Len(parts) = 1 THEN parts[1]
  ELSE parts[1] \o sep \o Join(Tail(parts), sep)

\* ------------------------------------------------------ category constants
Purchased == <<"Kou", "Nyu">>
Fabricated == <<"Sei", "Saku">>
Electrical == <<"Den", "Ki">>

CategoryNames == <<Purchased, Fabricated, Electrical>>

\* ------------------------------------------------------------ key extractor
\* extractJNumber: first match of /(J\d{10})/, "" when there is none
IsJNumberAt(s, i) ==
  /\ i + 10 <= Len(s)
  /\ s[i] = "J"
  /\ \A k \in 1..10 : IsDigit(s[i + k])

extractJNumber(fileName) ==
  IF \E i \in 1..Len(fileName) : IsJNumberAt(fileName, i)
  THEN LET i == CHOOSE i \in 1..Len(fileName) :
                  /\ IsJNumberAt(fileName, i)
                  /\ \A j \in 1..(i - 1) : ~IsJNumberAt(fileName, j)
       IN SubSeq(fileName, i, i + 10)
  ELSE <<>>

\* determineCategory: first match of /_(製作|購入|電気)_/, "" when none
IsCategoryAt(s, i) ==
  \E c \in 1..3 : MatchAt(s, i, <<"_">> \o CategoryNames[c] \o <<"_">>)

determineCategory(fileName) ==
  IF \E i \in 1..Len(fileName) : IsCategoryAt(fileName, i)
  THEN LET i == CHOOSE i \in 1..Len(fileName) :
                  /\ IsCategoryAt(fileName, i)
                  /\ \A j \in 1..(i - 1) : ~IsCategoryAt(fileName, j)
       IN SubSeq(fileName, i + 1, i + 2)
  ELSE <<>>

\* /(\d+)unit/i matches at i: the greedy run of digits from i is followed by
\* "unit" in any case (a shorter run is followed by a digit, never by "u")
IsUnitAt(s, i) ==
  /\ DigitRun(s, i) > 0
  /\ LET j == i + DigitRun(s, i) IN
       /\ j + 3 <= Len(s)
       /\ ToLowerCase(SubSeq(s, j, j + 3)) = <<"u", "n", "i", "t">>

\* processFilename: category letter, then the 2-digit unit number if any
processFilename(fileName, category) ==
  LET categoryPrefix ==
        IF category = Fabricated THEN <<"Sei">>
        ELSE IF category = Purchased THEN <<"Kou">>
        ELSE IF category = Electrical THEN <<"Den">>
        ELSE <<>>
      unitNumberLength == 2
  IN IF category # Electrical /\ categoryPrefix # <<>>
     THEN IF \E i \in 1..Len(fileName) : IsUnitAt(fileName, i)
          THEN LET i == CHOOSE i \in 1..Len(fileName) :
                          /\ IsUnitAt(fileName, i)
                          /\ \A j \in 1..(i - 1) : ~IsUnitAt(fileName, j)
                   unitNumber ==
                     PadStart(SubSeq(fileName, i, i + DigitRun(fileName, i) - 1),
                              unitNumberLength)
               IN categoryPrefix \o unitNumber
          ELSE categoryPrefix
     ELSE IF category = Electrical THEN categoryPrefix
     ELSE <<>>

\* the extension allow-list of processFiles
validExtensions ==
  << <<".", "x", "l", "s">>, <<".", "x", "l", "s", "x">>, <<".", "x", "l", "s", "m">> >>

HasValidExtension(fileName) ==
  \E e \in 1..Len(validExtensions) : EndsWith(ToLowerCase(fileName), validExtensions[e])

\* ------------------------------------------------------------ cell values
\* A cell is a string (sequence of characters); a Date-typed cell is the tag
\* "Date" followed by the 8 digits yyyyMMdd of its day in JST.
Empty == <<>>

\* the hole left in a row by an assignment past its end
Undefined == <<"undefined">>

IsDateCell(c) == Len(c) = 9 /\ c[1] = "Date"

\* Utilities.formatDate(d, "JST", "yyyy/MM/dd")
FormatDate(c) ==
  SubSeq(c, 2, 5) \o <<"/">> \o SubSeq(c, 6, 7) \o <<"/">> \o SubSeq(c, 8, 9)

\* settings.COLUMN_NAMES.D, the title of the category column
ColumnNameD == <<"c", "a", "t">>

\* excludeStockStatus, 社内在庫なし
excludeStockStatus == <<"Sha", "Nai", "Zai", "Ko", "Na", "Shi">>

\* ----------------------------------------------------------- row normalizer
\* findLastDataRow: 1-based number of the last row whose column B is filled
findLastDataRow(sheet) ==
  LET filled == {i \in 1..Len(sheet) : Len(sheet[i]) >= 2 /\ sheet[i][2] # Empty}
  IN IF filled = {} THEN 0 ELSE CHOOSE i \in filled : \A j \in filled : j <= i

\* newRow.splice(0, 1); newRow.slice(0, 9)
PruneColumns(row) ==
  LET newRow == IF row = <<>> THEN <<>> ELSE Tail(row)
  IN SubSeq(newRow, 1, IF Len(newRow) < 9 THEN Len(newRow) ELSE 9)

\* data.filter((row, index) => index === 0 || row[2] !== excludeStockStatus),
\* on the rows from 1-based position i on
RECURSIVE StockFilterFrom(_, _)
StockFilterFrom(data, i) ==
  IF i > Len(data) THEN <<>>
  ELSE (IF i = 1 \/ Len(data[i]) < 3 \/ data[i][3] # excludeStockStatus
        THEN <<data[i]>> ELSE <<>>) \o StockFilterFrom(data, i + 1)

\* the filter without the exemption of the header row
StockFilterAllRows(data) ==
  SelectSeq(data, LAMBDA row : Len(row) < 3 \/ row[3] # excludeStockStatus)

StockFilter(data) == StockFilterFrom(data, 1)

\* row[k] = v with k 0-based, as a JavaScript array assignment
SetCell(row, k, v) ==
  [i \in 1..(IF Len(row) > k THEN Len(row) ELSE k + 1) |->
     IF i = k + 1 THEN v ELSE IF i <= Len(row) THEN row[i] ELSE Undefined]

\* lines 368-374: blank column 7 of the data rows of 購入 and 電気
ClearColumnL(data, category) ==
  IF category = Purchased \/ category = Electrical
  THEN [i \in 1..Len(data) |-> IF i = 1 THEN data[i] ELSE SetCell(data[i], 7, Empty)]
  ELSE data

\* lines 377-384: prepend the category column
AddCategoryColumn(data, category) ==
  [i \in 1..Len(data) |->
     IF i = 1 THEN <<ColumnNameD>> \o data[i] ELSE <<category>> \o data[i]]

\* lines 387-409: Date values of columns 8 and 9 of the data rows become text
FormatDates(data) ==
  [i \in 1..Len(data) |->
     IF i = 1 THEN data[i]
     ELSE [k \in 1..Len(data[i]) |->
             IF k \in {9, 10} /\ IsDateCell(data[i][k])
             THEN FormatDate(data[i][k]) ELSE data[i][k]]]

\* lines 346-410 of processExcelFile: the file data read from a sheet
NormalizeSheet(sheet, fileName) ==
  LET validRows == findLastDataRow(sheet)
      raw == SubSeq(sheet, 1, validRows)
      pruned == [i \in 1..Len(raw) |-> PruneColumns(raw[i])]
      kept == StockFilter(pruned)
      category == determineCategory(fileName)
  IN FormatDates(AddCategoryColumn(ClearColumnL(kept, category), category))

\* collectUnitNumbersForCheck: digits of the first filled cell of column 1
\* below the header, "" when there is none
collectUnitNumbersForCheck(data) ==
  LET filled == {i \in 2..Len(data) :
                   Len(data[i]) >= 2 /\ data[i][2] # Undefined /\ data[i][2] # Empty}
  IN IF filled = {} THEN <<>>
     ELSE DigitsOnly(data[CHOOSE i \in filled : \A j \in filled : i <= j][2])

\* `${jNumber}_${categoryForCheck}_${unitNumbers}`
FileKey(jNumber, category, unitNumbers) ==
  jNumber \o <<"_">> \o category \o <<"_">> \o unitNumbers

\* --------------------------------------------------- the documents at hand
\* The files the folders can hold: what fileIterator.next() can return.  A
\* file is [name, hasSheet, sheet]: its name, whether the converted document
\* has the target sheet, and that sheet's cell values (12 columns A..L).
JNumber1 == <<"J", "0", "0", "0", "0", "0", "0", "0", "0", "0", "1">>
JNumber2 == <<"J", "0", "0", "0", "0", "0", "0", "0", "0", "0", "2">>
JNumber3 == <<"J", "0", "0", "0", "0", "0", "0", "0", "0", "0", "3">>

DatePrefix(mmdd) == <<"2", "0", "2", "4">> \o mmdd

Xlsx == <<".", "x", "l", "s", "x">>

OldName ==
  DatePrefix(<<"0", "1", "0", "5">>) \o <<"_">> \o JNumber1 \o <<"_">> \o Purchased
    \o <<"_", "3", "u", "n", "i", "t">> \o Xlsx

NewName ==
  DatePrefix(<<"0", "1", "1", "0">>) \o <<"_">> \o JNumber1 \o <<"_">> \o Purchased
    \o <<"_", "3", "u", "n", "i", "t">> \o Xlsx

FabName ==
  DatePrefix(<<"0", "1", "0", "7">>) \o <<"_">> \o JNumber1 \o <<"_">> \o Fabricated
    \o <<"_", "1", "U", "n", "i", "t", ".", "X", "L", "S", "M">>

TenName ==
  DatePrefix(<<"0", "1", "0", "3">>) \o <<"_">> \o JNumber2 \o <<"_">> \o Purchased
    \o <<"_", "1", "0", "u", "n", "i", "t", ".", "x", "l", "s">>

ElecName ==
  DatePrefix(<<"0", "1", "0", "8">>) \o <<"_">> \o JNumber1 \o <<"_">> \o Electrical
    \o <<"_">> \o Xlsx

NoSheetName ==
  DatePrefix(<<"0", "1", "0", "9">>) \o <<"_">> \o JNumber3 \o <<"_">> \o Fabricated
    \o <<"_", "2", "u", "n", "i", "t">> \o Xlsx

BlankName ==
  DatePrefix(<<"0", "1", "0", "2">>) \o <<"_">> \o JNumber1 \o <<"_">> \o Purchased
    \o <<"_", "7", "u", "n", "i", "t">> \o Xlsx

MemoName == <<"m", "e", "m", "o", ".", "t", "x", "t">>

\* a second file of the day, J number, category and unit of OldName
TwinName ==
  DatePrefix(<<"0", "1", "0", "5">>) \o <<"_">> \o JNumber1 \o <<"_">> \o Purchased
    \o <<"_", "3", "u", "n", "i", "t", ".", "x", "l", "s">>

\* one sheet row: A (index artefact), B (unit), C (part), D (stock status),
\* E (remark), F..H, I and J (the two columns that may hold dates), K, L
SheetRow(unit, part, stock, remark, colI, colJ) ==
  <<(<<"#">>), unit, part, stock, remark, Empty, Empty, Empty, colI, colJ,
    (<<"k">>), (<<"l">>)>>

HeaderRow(stockTitle) ==
  SheetRow(<<"u">>, <<"p">>, stockTitle, <<"r">>, <<"i">>, <<"j">>)

InStock == <<"o", "k">>

ADate == <<"Date", "2", "0", "2", "4", "0", "2", "0", "1">>

Files ==
  << [name |-> OldName, hasSheet |-> TRUE,
      sheet |-> << HeaderRow(<<"s">>),
                   SheetRow(<<"3">>, <<"o", "1">>, InStock, Empty, <<"x">>, Empty),
                   SheetRow(<<"3">>, <<"o", "2">>, excludeStockStatus, Empty, Empty, Empty),
                   SheetRow(<<"3">>, <<"o", "3">>, InStock, OldName, Empty, Empty),
                   SheetRow(<<"3">>, <<"o", "4">>, Empty, Empty, Empty, ADate) >>],
     [name |-> NewName, hasSheet |-> TRUE,
      sheet |-> << HeaderRow(<<"s">>),
                   SheetRow(<<"3", "u">>, <<"n", "1">>, InStock, Empty, Empty, Empty),
                   SheetRow(<<"3">>, <<"n", "2">>, InStock, Empty, ADate, Empty) >>],
     [name |-> FabName, hasSheet |-> TRUE,
      sheet |-> << HeaderRow(excludeStockStatus),
                   SheetRow(<<"1">>, <<"f", "1">>, InStock, Empty, ADate, ADate),
                   SheetRow(Empty, <<"f", "2">>, InStock, Empty, Empty, Empty) >>],
     [name |-> TenName, hasSheet |-> TRUE,
      sheet |-> << HeaderRow(<<"s">>),
                   SheetRow(<<"1", "0">>, <<"t", "1">>, InStock, Empty, Empty, Empty) >>],
     [name |-> ElecName, hasSheet |-> TRUE,
      sheet |-> << HeaderRow(<<"s">>),
                   SheetRow(<<"2">>, <<"e", "1">>, excludeStockStatus, Empty, Empty, Empty) >>],
     [name |-> NoSheetName, hasSheet |-> FALSE, sheet |-> << >>],
     [name |-> BlankName, hasSheet |-> TRUE,
      sheet |-> << SheetRow(Empty, <<"p">>, <<"s">>, Empty, Empty, Empty),
                   SheetRow(Empty, <<"b", "1">>, InStock, Empty, Empty, Empty) >>],
     [name |-> MemoName, hasSheet |-> FALSE, sheet |-> << >>],
     [name |-> TwinName, hasSheet |-> TRUE,
      sheet |-> << HeaderRow(<<"s">>),
                   SheetRow(<<"3">>, <<"w", "1">>, InStock, Empty, Empty, Empty) >>] >>

FileIds == 1..Len(Files)

\* the second file of a key and day, both files of that key and day, the
\* newer file of that key, and the file of another key
TwinIds == {f \in FileIds : Files[f].name = TwinName}
SameDayIds == {f \in FileIds : Files[f].name \in {OldName, TwinName}}
NewerIds == {f \in FileIds : Files[f].name = NewName}
OtherKeyIds == {f \in FileIds : Files[f].name = TenName}

\* the subfolder names the selected folder can hold (部品リスト is the marker)
PartsListMarker == <<"Bu", "Hin", "Ri", "Su", "To">>

FolderNames ==
  { <<"0", "1", "_">> \o PartsListMarker,
    <<"@">> \o PartsListMarker,
    <<"d", "o", "c", "s">> }

\* lines 60-63: the folder-name filter of combineExcelSheets
IsTargetFolder(subFolderName) ==
  /\ ~StartsWith(subFolderName, <<"@">>)
  /\ Includes(subFolderName, PartsListMarker)

\* what getCurrentDateTime() can return
Timestamps ==
  { <<"2", "0", "2", "4", "0", "1", "0", "1", "-", "0", "0", "0", "0">> }

\* ------------------------------------------------------ JavaScript Set, Map
\* A Set is the sequence of its members in insertion order.
SetHas(set, x) == \E i \in 1..Len(set) : set[i] = x

SetAdd(set, x) == IF SetHas(set, x) THEN set ELSE Append(set, x)

RECURSIVE SetAddAll(_, _)
SetAddAll(set, xs) ==
  IF xs = <<>> THEN set ELSE SetAddAll(SetAdd(set, Head(xs)), Tail(xs))

\* Map.prototype.set on a function
MapSetOnce(map, k, v) ==
  [x \in (DOMAIN map) \cup {k} |-> IF x \in DOMAIN map THEN map[x] ELSE v]

MapSet(map, k, v) == [x \in (DOMAIN map) \cup {k} |-> IF x = k THEN v ELSE map[x]]

Categories == {Purchased, Fabricated, Electrical}

NoParts == [c \in Categories |-> <<>>]

\* ------------------------------------------------------------- processFiles
\* lines 136-147: the locals of one processFiles call
NewProcessFiles ==
  [combinedDataRows |-> <<>>,
   processedFiles |-> 0,
   jNumberSet |-> <<>>,
   unitNumberSet |-> <<>>,
   categories |-> <<>>,
   processedFileKeys |-> <<>>,
   filenamePartsByCategory |-> NoParts]

\* the value processExcelFile returns: null, or {fileData, category}
Null == [ok |-> FALSE, fileData |-> <<>>, category |-> <<>>]

FileResult(fileData, category) ==
  [ok |-> TRUE, fileData |-> fileData, category |-> category]

\* row.includes(name): some cell of the row is the name
RowIncludes(row, name) == \E k \in 1..Len(row) : row[k] = name

\* combinedDataRows.filter((row) => !row.includes(existingFile.getName()))
RECURSIVE RemoveRowsOf(_, _)
RemoveRowsOf(rows, name) ==
  IF rows = <<>> THEN <<>>
  ELSE (IF RowIncludes(Head(rows), name) THEN <<>> ELSE <<Head(rows)>>)
         \o RemoveRowsOf(Tail(rows), name)

\* fileData.slice(1)
Slice1(rows) == IF rows = <<>> THEN <<>> ELSE Tail(rows)

\* line 157: the J number of every file at hand
jNumberOf == [f \in FileIds |-> extractJNumber(Files[f].name)]

\* lines 174-175: the date at the head of every file name
currentDateOf == [f \in FileIds |-> ParseInt(SubSeq(Files[f].name, 1, 8))]

\* lines 169-173: the key of a file that was read
KeyOf(f, r) ==
  FileKey(jNumberOf[f], r.category, collectUnitNumbersForCheck(r.fileData))

DateOf(f) == currentDateOf[f]

\* lines 161-190: what the loop body does with a file: "failed" (no data),
\* "stale" (continue at line 189), "supersedes" or "new"
Outcome(p, f, r) ==
  IF ~r.ok THEN "failed"
  ELSE IF KeyOf(f, r) \in DOMAIN p.processedFileKeys
       THEN IF JsGreater(DateOf(f), p.processedFileKeys[KeyOf(f, r)].date)
            THEN "supersedes" ELSE "stale"
       ELSE "new"

\* lines 193-206: push the file's name part on the list of its category
PushFilenamePart(parts, fileName, category) ==
  LET filenamePart == processFilename(fileName, category)
  IN IF filenamePart # <<>> /\ category \in Categories
     THEN [parts EXCEPT ![category] = Append(@, filenamePart)]
     ELSE parts

\* a skipped file counted as processed
SkipFileCounted(p) == [p EXCEPT !.processedFiles = @ + 1]

\* lines 161-164: no data came back, the loop goes on to the next file
SkipFile(p) == p

\* lines 161-214: the rest of the loop body, once processExcelFile returned r
HandleResult(p, f, r) ==
  LET fileName == Files[f].name
      withCategory ==
        IF r.ok /\ r.category # <<>>
        THEN [p EXCEPT !.categories = SetAdd(@, r.category)] ELSE p
      entry == [file |-> f, date |-> DateOf(f)]
  IN CASE Outcome(p, f, r) = "failed" -> SkipFile(p)
       [] Outcome(p, f, r) = "stale" -> withCategory
       [] Outcome(p, f, r) = "supersedes" ->
            [withCategory EXCEPT
               !.processedFileKeys = MapSet(@, KeyOf(f, r), entry),
               !.combinedDataRows =
                  RemoveRowsOf(@, Files[p.processedFileKeys[KeyOf(f, r)].file].name)
                    \o Slice1(r.fileData),
               !.processedFiles = @ + 1]
       [] OTHER ->
            [withCategory EXCEPT
               !.processedFileKeys = MapSet(@, KeyOf(f, r), entry),
               !.filenamePartsByCategory = PushFilenamePart(@, fileName, r.category),
               !.combinedDataRows =
                  IF p.processedFiles = 0 THEN r.fileData ELSE @ \o Slice1(r.fileData),
               !.processedFiles = @ + 1]

\* the comparator of lines 220-224 reads this number off a name part
UnitOf(part) == ParseIntOrZero(DigitsOnly(part))

\* Array.prototype.sort with that comparator: stable, ascending
RECURSIVE InsertPart(_, _)
InsertPart(sorted, part) ==
  IF sorted = <<>> THEN <<part>>
  ELSE IF UnitOf(sorted[Len(sorted)]) - UnitOf(part) <= 0 THEN Append(sorted, part)
  ELSE Append(InsertPart(SubSeq(sorted, 1, Len(sorted) - 1), part), sorted[Len(sorted)])

RECURSIVE SortParts(_)
SortParts(parts) ==
  IF parts = <<>> THEN <<>>
  ELSE InsertPart(SortParts(SubSeq(parts, 1, Len(parts) - 1)), parts[Len(parts)])

\* lines 217-226: sort the name parts of every category
SortAllParts(partsByCategory) ==
  [c \in Categories |-> SortParts(partsByCategory[c])]

\* -------------------------------------------------------- createSpreadsheet
\* settings.COLUMN_NAMES.A .. M, the titles of the 13 output columns
ColumnNames ==
  << <<"A">>, <<"B">>, <<"C">>, ColumnNameD, <<"E">>, <<"F">>, <<"G">>, <<"H">>,
     <<"I">>, <<"J">>, <<"K">>, <<"L">>, <<"M">> >>

\* String(n) of a non-negative number
RECURSIVE NumberString(_)
NumberString(n) ==
  IF n < 10 THEN <<DigitChars[n + 1]>>
  ELSE NumberString(n \div 10) \o <<DigitChars[(n % 10) + 1]>>

\* lines 511-521: the data rows numbered from 1 behind two empty columns,
\* under the header row
FinalData(rows) ==
  LET dataRows == Slice1(rows)
  IN <<ColumnNames>> \o
     [i \in 1..Len(dataRows) |-> <<Empty, Empty, NumberString(i)>> \o dataRows[i]]

\* the parts kept whole
KeepPrefixes(parts) == parts

\* part.slice(1) of every part
RECURSIVE StripPrefixes(_)
StripPrefixes(parts) ==
  IF parts = <<>> THEN <<>> ELSE <<Slice1(Head(parts))>> \o StripPrefixes(Tail(parts))

\* lines 529-546: the category segments of the output name
FilenameParts(partsByCategory) ==
  (IF Len(partsByCategory[Purchased]) > 0
   THEN << <<"Kou">> \o Join(StripPrefixes(partsByCategory[Purchased]), <<"-">>) >>
   ELSE <<>>)
  \o (IF Len(partsByCategory[Fabricated]) > 0
      THEN << <<"Sei">> \o Join(StripPrefixes(partsByCategory[Fabricated]), <<"-">>) >>
      ELSE <<>>)
  \o (IF Len(partsByCategory[Electrical]) > 0 THEN << <<"Den">> >> ELSE <<>>)

\* lines 496-497 and 546-552: the name of the output document
NewFileName(jNumbers, partsByCategory, dateTime) ==
  LET jNumber == IF jNumbers = <<>> THEN <<>> ELSE jNumbers[1]
      combinedFilenameBase == Join(FilenameParts(partsByCategory), <<"_">>)
      underscore == IF combinedFilenameBase # <<>> THEN <<"_">> ELSE <<>>
  IN jNumber \o underscore \o combinedFilenameBase \o <<"_">> \o dateTime

\* ------------------------------------------------------- combineExcelSheets
\* the exception left to the caller
Rethrow(e) == [how |-> "thrown", value |-> [error |-> e]]

\* lines 123-126: an exception thrown inside the try block is turned into the
\* returned value {success: false, error}
Catch(e) == [how |-> "returned", value |-> [success |-> FALSE, error |-> e]]

\* lines 117-122
Success(url, files, rows) ==
  [how |-> "returned",
   value |-> [success |-> TRUE, url |-> url, processedFiles |-> files,
              totalRows |-> rows]]

Running == [how |-> "running", value |-> [pending |-> TRUE]]

\* the run without its failed files: the locals of its processFiles call and
\* its accumulators
NewShadow ==
  [pf |-> NewProcessFiles,
   combinedDataRows |-> <<>>,
   processedFiles |-> 0,
   filenamePartsByCategory |-> NoParts]

\* lines 157-158: the J number of a file joins the set
AddJNumber(p, f) ==
  IF jNumberOf[f] # <<>>
  THEN [p EXCEPT !.jNumberSet = SetAdd(@, jNumberOf[f])]
  ELSE p

NoOutput == [exists |-> FALSE, name |-> <<>>, data |-> <<>>]

VARIABLES
  pc,                      \* where the run stands
  targetFolders,           \* targetFolders.length
  folderIndex,             \* folders the forEach of line 83 has finished
  nFiles,                  \* files iterated so far in the run
  combinedDataRows, processedFiles, jNumberSet, unitNumberSet, categories,
  filenamePartsByCategory, \* the accumulators of lines 72-81
  pf,                      \* the locals of the running processFiles call
  file,                    \* the file of the running loop body, 0 if none
  convertedFileId,         \* of the running processExcelFile call, 0 for null
  ret,                     \* the value processExcelFile is about to return
  releaseAttempts,         \* setTrashed calls made for the file's copy
  releaseFailed,           \* whether that call threw
  output,                  \* the copy of the template in the output folder
  result,                  \* how combineExcelSheets ended, and with what
  normalized,              \* the files processExcelFile returned data for
  shadow,                  \* the run as it would stand without the failed files
  readCount,               \* how many reads returned data, over the whole run
  firstSeen,               \* this folder's files whose read returned data, in
                           \* the order of their first such read
  drive                    \* the files the folders of this run may hold

vars ==
  <<pc, targetFolders, folderIndex, nFiles, combinedDataRows, processedFiles,
    jNumberSet, unitNumberSet, categories, filenamePartsByCategory, pf, file,
    convertedFileId, ret, releaseAttempts, releaseFailed, output, result, normalized, shadow,
    readCount, firstSeen, drive>>

accumulators ==
  <<combinedDataRows, processedFiles, jNumberSet, unitNumberSet, categories,
    filenamePartsByCategory>>

ghosts == <<normalized, shadow, readCount, firstSeen>>

fileLocals == <<file, convertedFileId, ret, releaseAttempts, releaseFailed>>

\* the state before combineExcelSheets is called
Fresh ==
  /\ pc = "selectFolder"
  /\ targetFolders = 0
  /\ folderIndex = 0
  /\ nFiles = 0
  /\ combinedDataRows = <<>>
  /\ processedFiles = 0
  /\ jNumberSet = <<>>
  /\ unitNumberSet = <<>>
  /\ categories = <<>>
  /\ filenamePartsByCategory = NoParts
  /\ pf = NewProcessFiles
  /\ file = 0
  /\ convertedFileId = 0
  /\ ret = Null
  /\ releaseAttempts = 0
  /\ releaseFailed = FALSE
  /\ output = NoOutput
  /\ result = Running
  /\ normalized = {}
  /\ shadow = NewShadow
  /\ readCount = 0
  /\ firstSeen = <<>>

\* the folders hold files of every kind, one of each key and day
Init ==
  /\ Fresh
  /\ drive = FileIds \ TwinIds

\* the folders hold files of equal key, two of them of the same day, and one
\* file of another key
InitTwins ==
  /\ Fresh
  /\ drive = SameDayIds \cup NewerIds \cup OtherKeyIds

\* an exception reaches the catch of line 123: the run ends there
Throw(e) ==
  /\ result' = Catch(e)
  /\ pc' = "done"

\* lines 48-49: the user picks a folder, cancels, or the Drive call throws
SelectFolder ==
  /\ pc = "selectFolder"
  /\ \E folderId \in {"id", "null", "throws"} :
       IF folderId = "id"
       THEN pc' = "getFolder" /\ UNCHANGED result
       ELSE IF folderId = "null" THEN Throw("no folder selected")
       ELSE Throw("cannot list folders")
  /\ UNCHANGED <<drive, targetFolders, folderIndex, nFiles, accumulators, pf, fileLocals,
                 output, ghosts>>

\* lines 51-70: open the folder and keep the subfolders that pass the filter
ListFolders ==
  /\ pc = "getFolder"
  /\ \E found \in BOOLEAN :
       IF ~found
       THEN Throw("folder not found") /\ UNCHANGED targetFolders
       ELSE \E n \in 0..MaxFolders : \E subFolders \in [1..n -> FolderNames] :
              LET kept == {i \in 1..n : IsTargetFolder(subFolders[i])}
              IN IF Cardinality(kept) = 0
                 THEN Throw("no parts list folder") /\ UNCHANGED targetFolders
                 ELSE /\ targetFolders' = Cardinality(kept)
                      /\ pc' = "forEach"
                      /\ UNCHANGED result
  /\ UNCHANGED <<drive, folderIndex, nFiles, accumulators, pf, fileLocals, output,
                 ghosts>>

\* lines 84-85 and 135-147: the next folder's files are listed and
\* processFiles starts on them (or the Drive call throws)
BeginProcessFiles ==
  /\ pc = "forEach"
  /\ folderIndex < targetFolders
  /\ \E listed \in BOOLEAN :
       IF listed
       THEN /\ pf' = NewProcessFiles
            /\ shadow' = [shadow EXCEPT !.pf = NewProcessFiles]
            /\ pc' = "hasNext"
            /\ UNCHANGED result
       ELSE Throw("cannot list files") /\ UNCHANGED <<pf, shadow>>
  /\ UNCHANGED <<drive, targetFolders, folderIndex, nFiles, accumulators, fileLocals,
                 output, normalized, readCount, firstSeen>>

\* lines 149-158: the iterator yields a file; one without a valid extension
\* is skipped, any other has its J number recorded and is handed to
\* processExcelFile
NextFile ==
  /\ pc = "hasNext"
  /\ nFiles < MaxFiles
  /\ \E f \in drive :
       /\ nFiles' = nFiles + 1
       /\ IF ~HasValidExtension(Files[f].name)
          THEN UNCHANGED <<pc, pf, file>>
          ELSE /\ file' = f
               /\ pf' = AddJNumber(pf, f)
               /\ pc' = "upload"
  /\ UNCHANGED <<drive, targetFolders, folderIndex, accumulators, convertedFileId, ret,
                 releaseAttempts, releaseFailed, output, result, ghosts>>

\* lines 319-336: processExcelFile starts; the upload yields the id of the
\* converted copy, or throws and the call returns null through its catch
Upload ==
  /\ pc = "upload"
  /\ releaseAttempts' = 0
  /\ releaseFailed' = FALSE
  /\ \E uploaded \in BOOLEAN :
       IF uploaded
       THEN convertedFileId' = file /\ pc' = "read" /\ UNCHANGED ret
       ELSE convertedFileId' = 0 /\ ret' = Null /\ pc' = "finally"
  /\ UNCHANGED <<drive, targetFolders, folderIndex, nFiles, accumulators, pf, file,
                 output, result, ghosts>>

\* lines 337-413: the target sheet is read and normalized; without the sheet
\* the call returns null, and reading zero rows throws (getRange with no
\* rows), which the catch turns into null as well
SheetRead ==
  [f \in FileIds |->
     IF ~Files[f].hasSheet THEN Null
     ELSE IF findLastDataRow(Files[f].sheet) = 0 THEN Null
     ELSE FileResult(NormalizeSheet(Files[f].sheet, Files[f].name),
                     determineCategory(Files[f].name))]

ReadSheet ==
  /\ pc = "read"
  /\ ret' = SheetRead[file]
  /\ pc' = "finally"
  /\ UNCHANGED <<drive, targetFolders, folderIndex, nFiles, accumulators, pf, file,
                 convertedFileId, releaseAttempts, releaseFailed, output, result,
                 ghosts>>

\* the finally block without its own try/catch: a failing setTrashed throws
\* on, through processFiles, to the catch of combineExcelSheets
ReleaseCopyUncaught ==
  /\ pc = "finally"
  /\ IF convertedFileId # 0
     THEN \E trashed \in BOOLEAN :
            /\ releaseAttempts' = releaseAttempts + 1
            /\ releaseFailed' = ~trashed
            /\ IF trashed THEN pc' = "handle" /\ UNCHANGED result
               ELSE result' = [how |-> "returned",
                               value |-> [success |-> FALSE, error |-> "cannot trash copy"]]
                    /\ pc' = "done"
     ELSE pc' = "handle" /\ UNCHANGED <<releaseAttempts, releaseFailed, result>>
  /\ UNCHANGED <<drive, targetFolders, folderIndex, nFiles, accumulators, pf, file,
                 convertedFileId, ret, output, ghosts>>

\* lines 414-424: the finally block trashes the converted copy if there is
\* one; setTrashed may throw, which is logged and goes no further
ReleaseCopy ==
  /\ pc = "finally"
  /\ IF convertedFileId # 0
     THEN \E trashed \in BOOLEAN :
            /\ releaseAttempts' = releaseAttempts + 1
            /\ releaseFailed' = ~trashed
     ELSE UNCHANGED <<releaseAttempts, releaseFailed>>
  /\ pc' = "handle"
  /\ UNCHANGED <<drive, targetFolders, folderIndex, nFiles, accumulators, pf, file,
                 convertedFileId, ret, output, result, ghosts>>

\* lines 161-214: the loop body goes on with what processExcelFile returned
HandleFile ==
  /\ pc = "handle"
  /\ pf' = HandleResult(pf, file, ret)
  /\ normalized' = IF ret.ok THEN normalized \cup {file} ELSE normalized
  /\ readCount' = IF ret.ok THEN readCount + 1 ELSE readCount
  /\ firstSeen' = IF ret.ok /\ ~SetHas(firstSeen, file)
                   THEN Append(firstSeen, file) ELSE firstSeen
  /\ shadow' = IF ret.ok
                THEN [shadow EXCEPT !.pf = HandleResult(AddJNumber(@, file), file, ret)]
                ELSE shadow
  /\ file' = 0
  /\ convertedFileId' = 0
  /\ ret' = Null
  /\ releaseAttempts' = 0
  /\ releaseFailed' = FALSE
  /\ pc' = "hasNext"
  /\ UNCHANGED <<drive, targetFolders, folderIndex, nFiles, accumulators, output, result>>

\* lines 93-97: the name parts of a folder go behind those gathered so far
MergeParts(parts, more) == [c \in Categories |-> parts[c] \o more[c]]

\* lines 217-236 and 86-97: the iterator is exhausted; processFiles sorts its
\* name parts and returns, and the forEach body adds what it returned to the
\* accumulators
EndProcessFiles ==
  /\ pc = "hasNext"
  /\ combinedDataRows' = combinedDataRows \o pf.combinedDataRows
  /\ processedFiles' = processedFiles + pf.processedFiles
  /\ jNumberSet' = SetAddAll(jNumberSet, pf.jNumberSet)
  /\ unitNumberSet' = SetAddAll(unitNumberSet, pf.unitNumberSet)
  /\ categories' = SetAddAll(categories, pf.categories)
  /\ filenamePartsByCategory' =
       MergeParts(filenamePartsByCategory, SortAllParts(pf.filenamePartsByCategory))
  /\ folderIndex' = folderIndex + 1
  /\ pf' = NewProcessFiles
  /\ firstSeen' = <<>>
  /\ shadow' =
       [pf |-> NewProcessFiles,
        combinedDataRows |-> shadow.combinedDataRows \o shadow.pf.combinedDataRows,
        processedFiles |-> shadow.processedFiles + shadow.pf.processedFiles,
        filenamePartsByCategory |->
          MergeParts(shadow.filenamePartsByCategory,
                     SortAllParts(shadow.pf.filenamePartsByCategory))]
  /\ pc' = "forEach"
  /\ UNCHANGED <<drive, targetFolders, nFiles, fileLocals, output, result, normalized,
                 readCount>>

\* lines 100-103: after the last folder, a run without files or rows fails
CheckResults ==
  /\ pc = "forEach"
  /\ folderIndex = targetFolders
  /\ IF processedFiles = 0 THEN Throw("no processable file")
     ELSE IF Len(combinedDataRows) = 0 THEN Throw("no valid data")
     ELSE pc' = "create" /\ UNCHANGED result
  /\ UNCHANGED <<drive, targetFolders, folderIndex, nFiles, accumulators, pf, fileLocals,
                 output, ghosts>>

\* lines 491-559 and 695-701: createSpreadsheet names the output and
\* copySpreadsheet copies the template: makeCopy may throw (nothing is
\* created), or a later call of copySpreadsheet may throw (the copy exists)
CopyTemplate ==
  /\ pc = "create"
  /\ \E dateTime \in Timestamps : \E step \in {"makeCopy throws", "move throws", "copied"} :
       LET copy == [exists |-> TRUE,
                    name |-> NewFileName(jNumberSet, filenamePartsByCategory, dateTime),
                    data |-> <<>>]
       IN CASE step = "makeCopy throws" -> Throw("cannot copy template") /\ UNCHANGED output
            [] step = "move throws" -> Throw("cannot move copy") /\ output' = copy
            [] OTHER -> pc' = "fill" /\ output' = copy /\ UNCHANGED result
  /\ UNCHANGED <<drive, targetFolders, folderIndex, nFiles, accumulators, pf, fileLocals, ghosts>>

\* setValues takes a rectangle: every row as wide as the first
IsRectangle(data) == \A i \in 1..Len(data) : Len(data[i]) = Len(data[1])

\* lines 561-685: the rest of createSpreadsheet writes and formats the
\* sheet; setValues throws on ragged rows, getRange throws on a range of no
\* rows (no data row under the header), and any Sheets call may throw
FillSheet ==
  /\ pc = "fill"
  /\ LET finalData == FinalData(combinedDataRows)
     IN IF ~IsRectangle(finalData) \/ Len(finalData) - 1 = 0
        THEN Throw("cannot write sheet") /\ UNCHANGED output
        ELSE \E written \in BOOLEAN :
               IF written
               THEN /\ output' = [output EXCEPT !.data = finalData]
                    /\ pc' = "format"
                    /\ UNCHANGED result
               ELSE Throw("cannot write sheet") /\ UNCHANGED output
  /\ UNCHANGED <<drive, targetFolders, folderIndex, nFiles, accumulators, pf, fileLocals, ghosts>>

\* lines 112-122: row heights and conditional formatting, then the result
FormatSheet ==
  /\ pc = "format"
  /\ \E formatted \in BOOLEAN :
       IF formatted
       THEN /\ result' = Success(output.name, processedFiles, Len(combinedDataRows))
            /\ pc' = "done"
       ELSE Throw("cannot format sheet")
  /\ UNCHANGED <<drive, targetFolders, folderIndex, nFiles, accumulators, pf, fileLocals,
                 output, ghosts>>

Next ==
  \/ SelectFolder
  \/ ListFolders
  \/ BeginProcessFiles
  \/ NextFile
  \/ Upload
  \/ ReadSheet
  \/ ReleaseCopy
  \/ HandleFile
  \/ EndProcessFiles
  \/ CheckResults
  \/ CopyTemplate
  \/ FillSheet
  \/ FormatSheet

Spec == Init /\ [][Next]_vars

SpecTwins == InitTwins /\ [][Next]_vars

\* ================================================================ claims
\* what the claims speak of
Range(seq) == {seq[i] : i \in 1..Len(seq)}

\* the data rows a file contributes once normalized
DataRowsOf(f) == Range(Slice1(SheetRead[f].fileData))

\* the dedupKey of a file that normalizes
DedupKeyOf(f) == KeyOf(f, SheetRead[f])

\* how often a row occurs in a list of rows
Occurrences(rows, row) == Cardinality({i \in 1..Len(rows) : rows[i] = row})

\* the merged rows are handed to createSpreadsheet
HandedToOutput == pc = "create"

\* C1: of two normalized documents with equal dedupKey and dates D1 < D2, in
\* either order and in the same folder or not, the rows handed to the output
\* hold every data row of the D2 document and no data row of the D1 document.
C1_RecencyWins ==
  HandedToOutput =>
    \A d1 \in normalized : \A d2 \in normalized :
      (DedupKeyOf(d1) = DedupKeyOf(d2) /\ JsGreater(DateOf(d2), DateOf(d1))) =>
        /\ DataRowsOf(d2) \subseteq Range(combinedDataRows)
        /\ DataRowsOf(d1) \cap Range(combinedDataRows) = {}

\* C2: a document fed twice in one run, in one folder or in two, is admitted
\* once: the rows handed to the output hold each of its data rows once.
C2_FedTwiceAdmittedOnce ==
  HandedToOutput =>
    \A d \in normalized : \A row \in DataRowsOf(d) :
      Occurrences(combinedDataRows, row) <= 1

\* C3: combineExcelSheets always ends by returning a value, never by
\* throwing: {success: false, error} after a failure at any step, and
\* {success: true, url, processedFiles, totalRows} otherwise.
C3_StructuredResult ==
  /\ result.how \in {"running", "returned"}
  /\ (pc = "done") = (result.how = "returned")
  /\ result.how = "returned" =>
       IF result.value.success
       THEN DOMAIN result.value = {"success", "url", "processedFiles", "totalRows"}
       ELSE DOMAIN result.value = {"success", "error"}

\* a run that failed while the output was being formatted
C3_Witness ==
  /\ pc = "done"
  /\ result.value.success = FALSE
  /\ result.value.error = "cannot format sheet"

\* C4: a run that returns {success: false} has created no output document.
C4_FailsAtomically ==
  (pc = "done" /\ ~result.value.success) => ~output.exists

\* C5: once processExcelFile holds a converted copy, it tries to trash it
\* exactly once before it returns, whatever it returns, and before the next
\* file is taken; a failed attempt changes neither the value returned nor
\* the state and the outcome of the run.
C5_ReleasedOnce ==
  /\ [](/\ releaseAttempts <= 1
        /\ pc = "handle" => releaseAttempts = (IF convertedFileId # 0 THEN 1 ELSE 0)
        /\ pc \in {"hasNext", "upload"} => convertedFileId = 0)
  /\ [][pc = "finally" =>
          /\ pc' = "handle"
          /\ ret' = ret
          /\ result' = result
          /\ pf' = pf
          /\ <<accumulators, output>>' = <<accumulators, output>>]_vars

\* the release failed for a file whose data is returned all the same
C5_Witness ==
  /\ pc = "handle"
  /\ convertedFileId # 0
  /\ releaseAttempts = 1
  /\ releaseFailed
  /\ ret.ok

\* rows, registry, name parts and file count: what a skipped file must leave
\* alone
Admitted(p) ==
  <<p.combinedDataRows, p.processedFileKeys, p.filenamePartsByCategory,
    p.processedFiles>>

\* C6: a file that is skipped (unsupported extension, no target sheet,
\* conversion or read failure) adds no rows, no registry entry, no name part
\* and no processed file, and every later file, in this folder and the next
\* ones, is handled as in the run without the skipped files.
C6_SkippedFileLeavesNoTrace ==
  /\ Admitted(pf) = Admitted(shadow.pf)
  /\ combinedDataRows = shadow.combinedDataRows
  /\ filenamePartsByCategory = shadow.filenamePartsByCategory
  /\ processedFiles = shadow.processedFiles
  /\ pc = "handle" => Outcome(pf, file, ret) = Outcome(shadow.pf, file, ret)

\* a file supersedes an older one in a folder where a file had no sheet
C6_Witness ==
  /\ pc = "handle"
  /\ SetHas(pf.jNumberSet, JNumber3)
  /\ Outcome(pf, file, ret) = "supersedes"

\* C7: at the end of the run the J number, the unit digits and the category
\* of every normalized document are in the run's summary sets.
C7_SummarySetsComplete ==
  HandedToOutput =>
    \A d \in normalized :
      /\ SetHas(jNumberSet, jNumberOf[d])
      /\ SetHas(unitNumberSet, collectUnitNumbersForCheck(SheetRead[d].fileData))
      /\ SetHas(categories, SheetRead[d].category)

\* the rows of a sheet the stock filter keeps, by 1-based position
KeptPositions(sheet) ==
  {i \in 1..findLastDataRow(sheet) : i = 1 \/ sheet[i][4] # excludeStockStatus}

NthOf(positions, k) ==
  CHOOSE i \in positions : Cardinality({j \in positions : j <= i}) = k

\* a row of the merged rows that is a document's data row
IsDataRow(row) == row[1] # ColumnNameD

\* C8: the normalized rows are the rows read, in order, but for the data rows
\* whose stock status (column D of the sheet) is the exclusion marker; the
\* header row stays whatever it holds there; and no data row with the
\* marker appears in the merged rows or in the output.
C8_StockFilter ==
  /\ (pc = "finally" /\ ret.ok) =>
       LET sheet == Files[file].sheet
           kept == KeptPositions(sheet)
       IN /\ Len(ret.fileData) = Cardinality(kept)
          /\ \A k \in 1..Len(ret.fileData) :
               /\ ret.fileData[k][3] = sheet[NthOf(kept, k)][3]
               /\ ret.fileData[k][4] = sheet[NthOf(kept, k)][4]
  /\ \A row \in Range(pf.combinedDataRows) \cup Range(combinedDataRows) :
       IsDataRow(row) => row[4] # excludeStockStatus
  /\ \A i \in 2..Len(output.data) :
       IsDataRow(SubSeq(output.data[i], 4, 13)) => output.data[i][7] # excludeStockStatus

\* a sheet whose header holds the marker in the stock column was normalized
\* and its rows are in the output
C8_Witness ==
  /\ output.data # <<>>
  /\ 3 \in normalized
  /\ 1 \in normalized

\* the name the claim describes, segment by segment
ClaimedSegment(letter, parts) ==
  <<letter>> \o Join([i \in 1..Len(parts) |-> SubSeq(parts[i], 2, Len(parts[i]))], <<"-">>)

ClaimedName(projectId, parts, timestamp) ==
  LET segments ==
        SelectSeq(<< IF parts[Purchased] = <<>> THEN <<>>
                     ELSE ClaimedSegment("Kou", parts[Purchased]),
                     IF parts[Fabricated] = <<>> THEN <<>>
                     ELSE ClaimedSegment("Sei", parts[Fabricated]),
                     IF parts[Electrical] = <<>> THEN <<>> ELSE <<"Den">> >>,
                  LAMBDA seg : seg # <<>>)
  IN IF segments = <<>> THEN projectId \o <<"_">> \o timestamp
     ELSE projectId \o <<"_">> \o Join(segments, <<"_">>) \o <<"_">> \o timestamp

\* C9: the output name is the J number, then (if any category has a name
\* part) "_" and the segments of 購入, 製作, 電気 in that order joined by "_",
\* then "_" and the timestamp; a 購入 or 製作 segment is the letter once and
\* the parts without their letter joined by "-", the 電気 segment its letter
\* alone.
C9_OutputName ==
  output.exists =>
    \E timestamp \in Timestamps :
      output.name =
        ClaimedName(IF jNumberSet = <<>> THEN <<>> ELSE jNumberSet[1],
                    filenamePartsByCategory, timestamp)

\* J0000000001 with the name parts 購03, 購10 and 製01 gives
\* J0000000001_購03-10_製01_<timestamp>
C9_Witness ==
  /\ output.exists
  /\ \E timestamp \in Timestamps :
       output.name = JNumber1 \o <<"_", "Kou", "0", "3", "-", "1", "0", "_", "Sei", "0", "1",
                                    "_">> \o timestamp

\* the name parts are in ascending order of their numbers
InUnitOrder(parts) ==
  \A i \in 1..Len(parts) : \A j \in 1..Len(parts) :
    i < j => UnitOf(parts[i]) <= UnitOf(parts[j])

\* C10: whatever the number of folders, every category's name parts are
\* handed to createSpreadsheet in ascending order of their numbers.
C10_PartsSortedForOutput ==
  HandedToOutput => \A c \in Categories : InUnitOrder(filenamePartsByCategory[c])

\* the normalized documents that survive deduplication: those with no
\* normalized document of the same dedupKey and a greater date
Survivors ==
  {d \in normalized :
     ~\E e \in normalized :
        DedupKeyOf(e) = DedupKeyOf(d) /\ JsGreater(DateOf(e), DateOf(d))}

RECURSIVE DataRowCount(_)
\* the number of data rows the documents of a set contribute once normalized
DataRowCount(docs) ==
  IF docs = {} THEN 0
  ELSE LET d == CHOOSE x \in docs : TRUE
       IN Len(Slice1(SheetRead[d].fileData)) + DataRowCount(docs \ {d})

\* combineExcelSheets returned {success: true, ...}
Succeeded == pc = "done" /\ result.how = "returned" /\ result.value.success

\* C11: in a successful result, totalRows is the number of data rows of the
\* documents that survive deduplication: it counts no header row, no row the
\* stock filter removed and no row of a superseded document.
C11_TotalRowsSurviving ==
  Succeeded => result.value.totalRows = DataRowCount(Survivors)

\* C12: in a successful result, processedFiles is the number of documents of
\* a recognized extension that were read and normalized during the run,
\* whether admitted as new or as superseding, superseded later, or stale.
C12_ProcessedFilesCountsReads ==
  Succeeded => result.value.processedFiles = readCount

\* the rows merged so far: those of the folders done and of the folder at hand
MergedSoFar == combinedDataRows \o pf.combinedDataRows

\* C13: at every point of a run, whatever the number of folders, the merged
\* rows hold one header row, at index 0, and every row behind it is a data
\* row: no document admitted later, in this folder or a later one, adds its
\* header row.
C13_SingleHeaderRow ==
  MergedSoFar # <<>> =>
    /\ ~IsDataRow(MergedSoFar[1])
    /\ \A i \in 2..Len(MergedSoFar) : IsDataRow(MergedSoFar[i])

\* the file at hand was read and normalized, and its dedupKey is registered
\* with a date equal to or greater than its own
StaleAtHand ==
  /\ pc = "handle"
  /\ ret.ok
  /\ KeyOf(file, ret) \in DOMAIN pf.processedFileKeys
  /\ ~DateOf(file).nan
  /\ ~pf.processedFileKeys[KeyOf(file, ret)].date.nan
  /\ pf.processedFileKeys[KeyOf(file, ret)].date.val >= DateOf(file).val

\* C14: admitting a normalized document whose dedupKey is registered with a
\* date equal to or greater than its own mutates nothing: the registry, the
\* merged rows, the name parts of every category and the processed-file count
\* stay as they are, in the folder and in the run; of two documents of one
\* key and one date the first seen stays registered and keeps its rows.
C14_StaleAdmitMutatesNothing ==
  [][StaleAtHand => (pf' = pf /\ UNCHANGED accumulators)]_vars

\* in one folder the second file of a key and day came behind the first, which
\* is still the registered one and whose rows are the merged ones
C14_Witness ==
  /\ pc = "hasNext"
  /\ \E o \in SameDayIds \ TwinIds : \E t \in TwinIds :
       /\ firstSeen = <<o, t>>
       /\ readCount = 2
       /\ pf.processedFileKeys[DedupKeyOf(o)] = [file |-> o, date |-> DateOf(o)]
       /\ pf.combinedDataRows = SheetRead[o].fileData
       /\ pf.processedFiles = 1

\* the files of a dedupKey among those this folder's reads returned data for,
\* by the position of their first read
ReadsOfKey(k) == {i \in 1..Len(firstSeen) : DedupKeyOf(firstSeen[i]) = k}

\* the first read, among those of a key, of a file with the greatest date
FirstOfGreatestDate(k) ==
  CHOOSE i \in ReadsOfKey(k) :
    /\ \A j \in ReadsOfKey(k) : DateOf(firstSeen[i]).val >= DateOf(firstSeen[j]).val
    /\ \A j \in ReadsOfKey(k) :
         DateOf(firstSeen[j]).val = DateOf(firstSeen[i]).val => i <= j

\* every file name read in this folder starts with 8 digits
AllDated == \A i \in 1..Len(firstSeen) : ~DateOf(firstSeen[i]).nan

\* the registry of the folder at hand holds the keys read so far, each with
\* the greatest date read for it and the first file read with that date
RegistryHoldsGreatest ==
  AllDated =>
    /\ DOMAIN pf.processedFileKeys = {DedupKeyOf(firstSeen[i]) : i \in 1..Len(firstSeen)}
    /\ \A k \in DOMAIN pf.processedFileKeys :
         pf.processedFileKeys[k] =
           [file |-> firstSeen[FirstOfGreatestDate(k)],
            date |-> DateOf(firstSeen[FirstOfGreatestDate(k)])]

\* while processFiles runs on a folder, no key leaves its registry and no
\* stored date decreases
RegistryGrows ==
  (AllDated /\ ~(pc = "hasNext" /\ pc' = "forEach")) =>
    \A k \in DOMAIN pf.processedFileKeys :
      /\ k \in DOMAIN pf'.processedFileKeys
      /\ pf'.processedFileKeys[k].date.val >= pf.processedFileKeys[k].date.val

\* C15: within one processFiles call on files whose names start with 8
\* digits, after each file the registry maps every dedupKey read so far in
\* the folder to the greatest date among the normalized files of that key and
\* to the first file read with that date; no stored date ever decreases and
\* no key is ever removed.
C15_RegistryHoldsGreatestDate ==
  []RegistryHoldsGreatest /\ [][RegistryGrows]_vars

\* in one folder the older file, the newer file and the older file's twin
\* were read in that order, and the newer file is the registered one
C15_Witness ==
  /\ pc = "hasNext"
  /\ \E o \in SameDayIds \ TwinIds : \E n \in NewerIds : \E t \in TwinIds :
       /\ firstSeen = <<o, n, t>>
       /\ pf.processedFileKeys[DedupKeyOf(t)] = [file |-> n, date |-> DateOf(n)]

====
